---------------------------- MODULE Spec2Model ----------------------------
(***************************************************************************)
(* A model of the VulnX-Pro scanning pipeline (src/core/*_v2.py):          *)
(* crawler, form extractor, payload injector, detectors and the            *)
(* orchestrating VulnerabilityScanner.                                     *)
(*                                                                         *)
(* Python strings are TLA+ strings (Len, \o and SubSeq work on them in     *)
(* TLC), so substring tests and lengths are computed on the real payloads  *)
(* and fingerprints.  Python lists are sequences, dicts are functions.     *)
(***************************************************************************)
EXTENDS Integers, Sequences, FiniteSets, TLC

(***************************************************************************)
(* Text                                                                    *)
(***************************************************************************)

\* Python's `p in s` on strings.
Contains(s, p) ==
    \/ Len(p) = 0
    \/ \E i \in 1..(Len(s) - Len(p) + 1) : SubSeq(s, i, i + Len(p) - 1) = p

UpperChars == "ABCDEFGHIJKLMNOPQRSTUVWXYZ"
LowerChars == "abcdefghijklmnopqrstuvwxyz"

UpperSet == {SubSeq(UpperChars, k, k) : k \in 1..Len(UpperChars)}

LowerTable ==
    [c \in UpperSet |->
        LET k == CHOOSE k \in 1..Len(UpperChars) : SubSeq(UpperChars, k, k) = c
        IN  SubSeq(LowerChars, k, k)]

LowerChar(c) == IF c \in UpperSet THEN LowerTable[c] ELSE c

\* Python's str.lower() (ASCII), character by character; the string is
\* halved to keep the recursion shallow.
RECURSIVE Lower(_)
Lower(s) ==
    IF Len(s) <= 1 THEN LowerChar(s)
    ELSE Lower(SubSeq(s, 1, Len(s) \div 2))
         \o Lower(SubSeq(s, (Len(s) \div 2) + 1, Len(s)))

\* Python truthiness of a string.
Truthy(s) == Len(s) > 0

Max(a, b) == IF a >= b THEN a ELSE b
Abs(a) == IF a >= 0 THEN a ELSE -a

Range(f) == {f[i] : i \in DOMAIN f}

RECURSIVE Flatten(_)
Flatten(ss) == IF ss = <<>> THEN <<>> ELSE Head(ss) \o Flatten(Tail(ss))

(***************************************************************************)
(* core/constants.py                                                       *)
(***************************************************************************)

SQLI_PAYLOADS ==
    << "' OR '1'='1",
       "' OR 1=1--",
       "\" OR 1=1--",
       "' UNION SELECT NULL--" >>

XSS_PAYLOADS ==
    << "<script>alert(1)</script>",
       "'\"><script>alert(1)</script>",
       "<img src=x onerror=alert(1)>" >>

SQL_ERRORS ==
    << "you have an error in your sql syntax",
       "warning: mysql",
       "unclosed quotation mark",
       "quoted string not properly terminated",
       "ORA-" >>

BOOL_TRUE_PAYLOAD == "' OR 1=1--"
BOOL_FALSE_PAYLOAD == "' OR 1=2--"
PARAM_PAYLOADS == << "' OR 1=1--", "<script>alert(1)</script>" >>


(***************************************************************************)
(* URLs.  A URL is [host, path, query]; query is the sequence of           *)
(* <<key, value>> pairs of the query string.                               *)
(***************************************************************************)

RECURSIVE QueryStr(_)
QueryStr(q) ==
    IF q = <<>> THEN ""
    ELSE Head(q)[1] \o "=" \o Head(q)[2]
         \o (IF Tail(q) = <<>> THEN "" ELSE "&" \o QueryStr(Tail(q)))

Origin(u) == "http://" \o u.host

\* The URL as the string the code handles.
UrlStr(u) ==
    Origin(u) \o u.path \o (IF u.query = <<>> THEN "" ELSE "?" \o QueryStr(u.query))

\* urljoin(url, ref) for the references the model uses: the empty reference
\* (the base itself) and an absolute path.
UrlJoinStr(u, ref) ==
    IF ref = "" THEN UrlStr(u)
    ELSE IF SubSeq(ref, 1, 1) = "/" THEN Origin(u) \o ref
    ELSE ref

(***************************************************************************)
(* The target.  A request is [via, method, target, params]: via tells      *)
(* whether it left through PayloadInjector.inject or through a direct      *)
(* requests.get.  A behaviour [kind, field] says how the target answers.   *)
(***************************************************************************)

FixedBody == "<h3>Results</h3><p>nothing found</p>"

ParamOf(req, field, default) ==
    IF field \in DOMAIN req.params THEN req.params[field] ELSE default

\* The answer to a request whose value of the behaviour's field is v:
\* [ok, text], ok = FALSE being a timeout or connection error, which
\* requests raises as exc.
RespondTo(beh, req, v) ==
    CASE beh.kind = "static" -> [ok |-> TRUE, text |-> FixedBody]
      [] beh.kind = "down" -> [ok |-> FALSE, text |-> "", exc |-> "ConnectionError"]
      [] beh.kind = "slow" -> [ok |-> FALSE, text |-> "", exc |-> "Timeout"]
      [] beh.kind = "sqli_first" ->
            [ok |-> TRUE,
             text |-> IF v = SQLI_PAYLOADS[1]
                      THEN "<p>" \o SQL_ERRORS[1] \o "</p>"
                      ELSE FixedBody]
      [] beh.kind = "sqli_quote" ->
            [ok |-> TRUE,
             text |-> IF Contains(v, "'") \/ Contains(Lower(v), "or") \/ Contains(v, "--")
                      THEN "<h3>Database Error</h3><p>You have an error in your SQL syntax near '"
                           \o v \o "' on line 1</p>"
                      ELSE "<h3>User ID: " \o v \o "</h3><p>Data retrieved successfully</p>"]
      [] beh.kind = "echo" ->
            [ok |-> TRUE,
             text |-> "<h3>Welcome "
                      \o (IF beh.field \in DOMAIN req.params THEN v ELSE "Guest")
                      \o "</h3>"]
      [] beh.kind = "blind" ->
            [ok |-> TRUE,
             text |-> IF v = BOOL_TRUE_PAYLOAD
                      THEN "<ul><li>alice</li><li>bob</li><li>carol</li></ul>"
                      ELSE "<ul></ul>"]
      [] beh.kind = "sqli_comment" ->
            [ok |-> TRUE,
             text |-> IF Contains(v, "--")
                      THEN "<p>" \o SQL_ERRORS[1] \o "</p>"
                      ELSE FixedBody]
      [] beh.kind = "echo_img" ->
            [ok |-> TRUE,
             text |-> "<h3>Welcome "
                      \o (IF Contains(Lower(v), "<script") THEN "" ELSE v)
                      \o "</h3>"]

Respond(beh, req) == RespondTo(beh, req, ParamOf(req, beh.field, ""))

(***************************************************************************)
(* core/extractor_v2.py                                                    *)
(***************************************************************************)

\* An attribute that the tag does not carry (BeautifulSoup's .get gives None).
NoAttr == "<absent>"

\* FormExtractor._parse_form: the form dictionary of one <form> element.
RECURSIVE ParseInputs(_)
ParseInputs(tags) ==
    IF tags = <<>> THEN <<>>
    ELSE LET t == Head(tags) IN
         (IF t.name # NoAttr /\ Truthy(t.name)
          THEN << [name |-> t.name,
                   type |-> IF t.type = NoAttr THEN "text" ELSE t.type,
                   value |-> ""] >>
          ELSE <<>>)
         \o ParseInputs(Tail(tags))

RECURSIVE ParseTextareas(_)
ParseTextareas(tags) ==
    IF tags = <<>> THEN <<>>
    ELSE LET t == Head(tags) IN
         (IF t.name # NoAttr /\ Truthy(t.name)
          THEN << [name |-> t.name, value |-> ""] >>
          ELSE <<>>)
         \o ParseTextareas(Tail(tags))

ParseForm(el, idx) ==
    [id |-> idx,
     action |-> IF el.action = NoAttr THEN "" ELSE el.action,
     method |-> IF el.method = NoAttr THEN "get" ELSE Lower(el.method),
     inputs |-> ParseInputs(el.inputs),
     textareas |-> ParseTextareas(el.textareas),
     selects |-> <<>>]

RECURSIVE ParseAll(_, _)
ParseAll(els, idx) ==
    IF els = <<>> THEN <<>>
    ELSE <<ParseForm(Head(els), idx)>> \o ParseAll(Tail(els), idx + 1)

\* FormExtractor.extract_forms: a failed fetch (timeout, connection error,
\* non-2xx) gives the empty list.
ExtractForms(pg) == IF pg.ok THEN ParseAll(pg.forms, 0) ELSE <<>>

HasAnyField(form) == Len(form.inputs) > 0 \/ Len(form.textareas) > 0

\* FormExtractor.has_vulnerable_inputs
HasVulnerableInputs(form) ==
    \/ \E i \in DOMAIN form.inputs :
          Lower(form.inputs[i].type) \notin {"submit", "button", "reset", "hidden"}
    \/ Len(form.textareas) > 0

(***************************************************************************)
(* core/injector_v2.py                                                     *)
(***************************************************************************)

\* inject, lines 67-70: {name: payload for name in form["inputs"]}.  The
\* entries of form["inputs"] are the dicts _parse_form built, and a dict is
\* no dictionary key: the comprehension raises TypeError on the first entry.
BuildData(form, payload) ==
    IF form.inputs # <<>>
    THEN [raised |-> TRUE, data |-> [n \in {} |-> ""]]
    ELSE [raised |-> FALSE, data |-> [n \in {"input"} |-> payload]]

\* inject, lines 62-65 and 72-79: the request for the data built.
BuildRequest(u, form, override, data) ==
    [via |-> "injector",
     method |-> IF Lower(IF Truthy(override) THEN override ELSE form.method) = "post"
                THEN "post" ELSE "get",
     target |-> IF Truthy(UrlJoinStr(u, form.action))
                THEN UrlJoinStr(u, form.action) ELSE UrlStr(u),
     params |-> data]

\* What the try block of inject raises in this model: requests' Timeout and
\* ConnectionError, and the TypeError of line 68.  All derive from Exception.
ExceptionClasses == {"Timeout", "ConnectionError", "TypeError"}

HandledNetworkOnly(exc) == exc \in {"Timeout", "ConnectionError"}

\* inject, lines 84-92: the three except clauses; the last one, except
\* Exception, catches whatever the first two do not.
Handled(exc) ==
    \/ exc = "Timeout"
    \/ exc = "ConnectionError"
    \/ exc \in ExceptionClasses

\* inject, lines 84-92: what the call gives when its try block raised exc
\* after the requests of sent had left.
Except(exc, sent) ==
    [text |-> "", sent |-> sent, exc |-> exc, raised |-> ~Handled(exc)]

\* inject, lines 75-82: the response text of the request that left.
Received(req, r) ==
    IF r.ok
    THEN [text |-> r.text, sent |-> <<req>>, exc |-> "none", raised |-> FALSE]
    ELSE Except(r.exc, <<req>>)

Send(beh, req) == Received(req, Respond(beh, req))

InjectBuilt(u, form, override, beh, built) ==
    IF built.raised
    THEN Except("TypeError", <<>>)
    ELSE Send(beh, BuildRequest(u, form, override, built.data))

\* PayloadInjector.inject without its rate limit (see ApplyRateLimitRead):
\* [text, sent, exc, raised], sent being the requests that left (none or
\* one), exc what the try block raised and raised whether it reached the
\* caller.
Inject(u, form, payload, override, beh) ==
    InjectBuilt(u, form, override, beh, BuildData(form, payload))

\* One inject call as the request log records it.
Call(form, payload, r) == [form |-> form.id, payload |-> payload, sent |-> r.sent]

(***************************************************************************)
(* core/detectors_v2.py                                                    *)
(***************************************************************************)

\* VulnerabilityAnalyzer.detect_sqli_error
detect_sqli_error(response) ==
    \E i \in DOMAIN SQL_ERRORS : Contains(Lower(response), Lower(SQL_ERRORS[i]))

\* The default threshold 0.1 as a fraction.
ThresholdNum == 1
ThresholdDen == 10

\* VulnerabilityAnalyzer.detect_sqli_boolean: diff / max > 0.1, with the
\* division cleared.
detect_sqli_boolean_inclusive(resp_true, resp_false) ==
    /\ Truthy(resp_true)
    /\ Truthy(resp_false)
    /\ Abs(Len(resp_true) - Len(resp_false)) * ThresholdDen
          >= ThresholdNum * Max(Len(resp_true), Len(resp_false))

detect_sqli_boolean(resp_true, resp_false) ==
    /\ Truthy(resp_true)
    /\ Truthy(resp_false)
    /\ Abs(Len(resp_true) - Len(resp_false)) * ThresholdDen
          > ThresholdNum * Max(Len(resp_true), Len(resp_false))

\* VulnerabilityAnalyzer.detect_xss_reflected
detect_xss_reflected(response, payload) ==
    /\ Truthy(response)
    /\ Truthy(payload)
    /\ Contains(response, payload)

\* form.get("action", url): the key is always there, so the default is
\* never taken.
Endpoint(u, form) == form.action

NoResult == [results |-> <<>>, calls |-> <<>>]

Join(a, b) == [results |-> a.results \o b.results, calls |-> a.calls \o b.calls]

Hit(type, u, form, payload, r) ==
    [results |-> << <<type, Endpoint(u, form), payload>> >>,
     calls |-> << Call(form, payload, r) >>]

Miss(form, payload, r) == [results |-> <<>>, calls |-> << Call(form, payload, r) >>]

\* SQLInjectionScanner.scan_form, lines 129-134: the error-based loop from
\* payload i on, r being the response to payload i.
RECURSIVE SqliErrorLoop(_, _, _, _)
RECURSIVE SqliErrorStep(_, _, _, _, _)
SqliErrorStepNoBreak(u, form, beh, i, r) ==
    Join(IF detect_sqli_error(r.text)
         THEN Hit("SQL Injection", u, form, SQLI_PAYLOADS[i], r)
         ELSE Miss(form, SQLI_PAYLOADS[i], r),
         SqliErrorLoop(u, form, beh, i + 1))

SqliErrorStep(u, form, beh, i, r) ==
    IF detect_sqli_error(r.text)
    THEN Hit("SQL Injection", u, form, SQLI_PAYLOADS[i], r)
    ELSE Join(Miss(form, SQLI_PAYLOADS[i], r), SqliErrorLoop(u, form, beh, i + 1))

SqliErrorLoop(u, form, beh, i) ==
    IF i > Len(SQLI_PAYLOADS) THEN NoResult
    ELSE SqliErrorStep(u, form, beh, i, Inject(u, form, SQLI_PAYLOADS[i], "", beh))

\* SQLInjectionScanner.scan_form, lines 137-142: the boolean-based check on
\* the two responses.
SqliBoolean(u, form, rt, rf) ==
    [results |->
        IF detect_sqli_boolean(rt.text, rf.text)
        THEN << <<"Blind SQL Injection", Endpoint(u, form), "Boolean Based">> >>
        ELSE <<>>,
     calls |-> << Call(form, BOOL_TRUE_PAYLOAD, rt), Call(form, BOOL_FALSE_PAYLOAD, rf) >>]

SqliScanFormBlindUnlessHit(u, form, beh) ==
    IF SqliErrorLoop(u, form, beh, 1).results # <<>>
    THEN SqliErrorLoop(u, form, beh, 1)
    ELSE Join(SqliErrorLoop(u, form, beh, 1),
              SqliBoolean(u, form,
                          Inject(u, form, BOOL_TRUE_PAYLOAD, "", beh),
                          Inject(u, form, BOOL_FALSE_PAYLOAD, "", beh)))

\* SQLInjectionScanner.scan_form
SqliScanForm(u, form, beh) ==
    Join(SqliErrorLoop(u, form, beh, 1),
         SqliBoolean(u, form,
                     Inject(u, form, BOOL_TRUE_PAYLOAD, "", beh),
                     Inject(u, form, BOOL_FALSE_PAYLOAD, "", beh)))

\* XSSScanner.scan_form, lines 174-179, from payload i on.
RECURSIVE XssLoop(_, _, _, _)
RECURSIVE XssStep(_, _, _, _, _)
XssStep(u, form, beh, i, r) ==
    IF detect_xss_reflected(r.text, XSS_PAYLOADS[i])
    THEN Hit("Reflected XSS", u, form, XSS_PAYLOADS[i], r)
    ELSE Join(Miss(form, XSS_PAYLOADS[i], r), XssLoop(u, form, beh, i + 1))

XssLoop(u, form, beh, i) ==
    IF i > Len(XSS_PAYLOADS) THEN NoResult
    ELSE XssStep(u, form, beh, i, Inject(u, form, XSS_PAYLOADS[i], "", beh))

\* XSSScanner.scan_form
XssScanForm(u, form, beh) == XssLoop(u, form, beh, 1)

\* parse_qs: the keys in first-occurrence order, pairs with a blank value
\* dropped.
RECURSIVE QueryKeys(_, _)
QueryKeys(q, seen) ==
    IF q = <<>> THEN <<>>
    ELSE LET k == Head(q)[1] IN
         IF Head(q)[2] = "" \/ k \in seen
         THEN QueryKeys(Tail(q), seen)
         ELSE <<k>> \o QueryKeys(Tail(q), seen \cup {k})

\* The first value parse_qs holds for key k.
FirstValue(q, k) ==
    LET i == CHOOSE i \in DOMAIN q :
                /\ q[i][1] = k /\ q[i][2] # ""
                /\ \A j \in 1..(i - 1) : ~(q[j][1] = k /\ q[j][2] # "")
    IN  q[i][2]

\* The probe of one key with one payload: the URL with that key's value
\* replaced, fetched with requests.get directly.
ProbeRequest(u, key, payload) ==
    [via |-> "direct",
     method |-> "get",
     target |-> Origin(u) \o u.path,
     params |-> [k \in Range(QueryKeys(u.query, {})) |->
                    IF k = key THEN payload ELSE FirstValue(u.query, k)]]

\* The findings one probe response adds (lines 227-234).
ProbeFindings(u, payload, r) ==
    IF ~r.ok THEN <<>>
    ELSE (IF Contains(r.text, payload)
          THEN IF Contains(payload, "<script>")
               THEN << <<"Reflected XSS", UrlStr(u), payload>> >>
               ELSE << <<"SQL Injection", UrlStr(u), payload>> >>
          ELSE <<>>)
         \o (IF Contains(Lower(r.text), "sql") \/ Contains(Lower(r.text), "mysql")
             THEN << <<"SQL Injection", UrlStr(u), payload>> >>
             ELSE <<>>)

Probed(u, payload, req, r, rest) ==
    [results |-> ProbeFindings(u, payload, r) \o rest.results,
     sent |-> <<req>> \o rest.sent]

\* ParameterScanner.scan_url_parameters from probe n on, the probes being
\* numbered key by key, payload by payload: [results, sent].
RECURSIVE ParamLoop(_, _, _, _)
RECURSIVE ParamStep(_, _, _, _, _, _)
ParamStep(u, beh, keys, n, payload, req) ==
    Probed(u, payload, req, Respond(beh, req), ParamLoop(u, beh, keys, n + 1))

ParamLoop(u, beh, keys, n) ==
    IF n >= Len(keys) * Len(PARAM_PAYLOADS) THEN [results |-> <<>>, sent |-> <<>>]
    ELSE ParamStep(u, beh, keys, n,
                   PARAM_PAYLOADS[(n % Len(PARAM_PAYLOADS)) + 1],
                   ProbeRequest(u, keys[(n \div Len(PARAM_PAYLOADS)) + 1],
                                PARAM_PAYLOADS[(n % Len(PARAM_PAYLOADS)) + 1]))

\* ParameterScanner.scan_url_parameters
ScanUrlParameters(u, beh) == ParamLoop(u, beh, QueryKeys(u.query, {}), 0)

(***************************************************************************)
(* VulnerabilityScanner._scan_single_url as a function of the page, the    *)
(* target's behaviour and the places where an unexpected exception is      *)
(* raised (faults: <<i, "sqli">>, <<i, "xss">> for the scan_form calls on  *)
(* form i, <<0, "params">> for scan_url_parameters).                       *)
(***************************************************************************)

\* Lines 87-101 for one form with testable inputs.
ScanOneForm(u, form, beh, faults, i) ==
    IF ~HasVulnerableInputs(form) THEN NoResult
    ELSE IF <<i, "sqli">> \in faults THEN NoResult
    ELSE IF <<i, "xss">> \in faults THEN SqliScanForm(u, form, beh)
    ELSE Join(SqliScanForm(u, form, beh), XssScanForm(u, form, beh))

\* Lines 86-101 from form i on: [results, calls].
RECURSIVE ScanForms(_, _, _, _, _)
ScanForms(u, forms, beh, faults, i) ==
    IF i > Len(forms) THEN NoResult
    ELSE Join(ScanOneForm(u, forms[i], beh, faults, i),
              ScanForms(u, forms, beh, faults, i + 1))

\* A request timeout <= 0 makes requests.get raise ValueError before it
\* sends anything; extract_forms catches it and returns no form.
FormsOf(pg, timeout) == IF timeout <= 0 THEN <<>> ELSE ExtractForms(pg)

\* Lines 103-108.
ScanParams(u, beh, faults) ==
    IF <<0, "params">> \in faults
    THEN [results |-> <<>>, sent |-> <<>>]
    ELSE ScanUrlParameters(u, beh)

TaskResult(fs, ps, timeout) ==
    [results |-> fs.results \o ps.results,
     calls |-> fs.calls,
     probes |-> ps.sent,
     fetched |-> timeout > 0]

\* [results, calls, probes, fetched]: the findings returned, the inject
\* calls made, the parameter probes sent, and whether the form page was
\* requested.
ScanSingleUrl(u, pg, beh, faults, timeout) ==
    TaskResult(ScanForms(u, FormsOf(pg, timeout), beh, faults, 1),
               ScanParams(u, beh, faults),
               timeout)

\* The network requests one task makes.
NetOf(r) ==
    (IF r.fetched THEN 1 ELSE 0)
    + Len(Flatten([i \in DOMAIN r.calls |-> r.calls[i].sent]))
    + Len(r.probes)

(***************************************************************************)
(* State                                                                   *)
(***************************************************************************)

VARIABLES
    config,           \* the constructor's arguments
    links,            \* the site: URL -> hrefs of the page, Broken or Unknown
    pages,            \* the site: URL -> [ok, forms], the page's forms
    beh,              \* how the target answers injections and probes
    outcome,          \* what _scan_single_url gives for each URL of the site
    pc,               \* where the running call is
    target,           \* the argument of the running call
    visited,          \* WebCrawler.visited
    discovered,       \* _crawl_recursive's accumulator
    stack,            \* the frames of _crawl_recursive
    fetchLog,         \* the pages the crawl fetched, in order
    scan_results,     \* VulnerabilityScanner.scan_results
    discovered_urls,  \* VulnerabilityScanner.discovered_urls
    futures,          \* the pool's futures, one per discovered URL
    ret,              \* what the last call returned
    raised,           \* whether the last call raised to its caller
    calls,            \* the inject calls of the last scan_fast
    probes,           \* the parameter probes of the last scan_fast
    contrib,          \* per collected task: its URL and returned findings
    netCount,         \* network requests made by the running call
    crawlRaised,      \* whether the running call's crawl raised
    nCalls,           \* calls started so far
    now,              \* time.time()
    last_request_time,\* PayloadInjector.last_request_time
    thr,              \* the threads inside inject
    dispatches,       \* the times at which requests were dispatched
    injection_count,  \* BulkPayloadInjector.injection_count
    error_count,      \* BulkPayloadInjector.error_count
    history,          \* the scanner's last returned call and the one before;
                      \* the calls made on a BulkPayloadInjector
    input,            \* the arguments of a call of one function on its own
    output            \* what that call returned

siteVars == <<config, links, pages, beh, outcome>>
crawlVars == <<visited, discovered, stack, fetchLog>>
scanVars == <<scan_results, discovered_urls, futures, ret, raised, calls,
              probes, contrib, netCount, crawlRaised>>
rateVars == <<now, last_request_time, thr, dispatches, injection_count, error_count>>
pureVars == <<input, output>>
vars == <<config, links, pages, beh, outcome, pc, target, visited, discovered, stack,
          fetchLog, scan_results, discovered_urls, futures, ret, raised,
          calls, probes, contrib, netCount, crawlRaised, nCalls, now,
          last_request_time, thr, dispatches, injection_count, error_count,
          history, input, output>>

(***************************************************************************)
(* core/crawler_v2.py                                                      *)
(***************************************************************************)

StartHost == "a.test"
OtherHost == "b.test"
Paths == {"/", "/x", "/y"}

Url(h, p) == [host |-> h, path |-> p, query |-> <<>>]

SiteUrls == {Url(StartHost, p) : p \in Paths}
AllUrls == SiteUrls \cup {Url(OtherHost, "/")}

\* The href of an anchor: relative to the page, absolute, or one without
\* host ("mailto:x").
RelHref(p) == [kind |-> "rel", host |-> "", path |-> p]
AbsHref(h, p) == [kind |-> "abs", host |-> h, path |-> p]

\* urljoin(url, href)
UrlJoin(u, href) ==
    CASE href.kind = "rel" -> Url(u.host, href.path)
      [] href.kind = "abs" -> Url(href.host, href.path)
      [] href.kind = "mailto" -> Url("", href.path)

\* WebCrawler._is_valid_url: scheme and netloc are both there.
IsValidUrl(u) == u.host # ""

IsSameDomainAlways(base_url, target_url) == TRUE

\* WebCrawler._is_same_domain
IsSameDomain(base_url, target_url) == base_url.host = target_url.host

\* WebCrawler._extract_links
RECURSIVE ExtractLinks(_, _)
ExtractLinks(u, hrefs) ==
    IF hrefs = <<>> THEN <<>>
    ELSE LET full_url == UrlJoin(u, Head(hrefs)) IN
         (IF IsValidUrl(full_url) /\ IsSameDomain(u, full_url)
          THEN <<full_url>> ELSE <<>>)
         \o ExtractLinks(u, Tail(hrefs))

UnknownPage == [known |-> FALSE, ok |-> FALSE, hrefs |-> <<>>]
BrokenPage == [known |-> TRUE, ok |-> FALSE, hrefs |-> <<>>]
LinkPage(h) == [known |-> TRUE, ok |-> TRUE, hrefs |-> h]

Hrefs == {RelHref(p) : p \in Paths} \cup {AbsHref(OtherHost, "/"), [kind |-> "mailto", host |-> "", path |-> "x"]}
HrefLists ==
    {<<>>} \cup {<<a>> : a \in Hrefs} \cup {<<a, b>> : a \in Hrefs, b \in Hrefs}

\* What a first fetch of a page may find; a page fetched before is as it
\* was (the site does not change).
LinkOptions(u) ==
    IF links[u].known THEN {links[u]}
    ELSE {BrokenPage} \cup {LinkPage(h) : h \in HrefLists}

Frame(u, d) == [url |-> u, depth |-> d, state |-> "enter", links |-> <<>>, i |-> 1]
Top == stack[Len(stack)]
Pop == SubSeq(stack, 1, Len(stack) - 1)

MarkVisitedForgotten(v, u) == v

\* line 137: self.visited.add(url)
MarkVisited(v, u) == v \cup {u}

TooDeepByTwo(depth) == depth > config.max_depth + 1

\* line 133: depth > self.max_depth
TooDeep(depth) == depth > config.max_depth

\* _crawl_recursive, lines 133-148: the stop conditions, the visit, the
\* fetch and the link extraction of the frame on top.
CrawlEnter ==
    /\ pc = "crawl"
    /\ stack # <<>>
    /\ Top.state = "enter"
    /\ IF TooDeep(Top.depth) \/ Top.url \in visited
       THEN /\ stack' = Pop
            /\ UNCHANGED <<pc, visited, discovered, fetchLog, links, netCount>>
       ELSE /\ visited' = MarkVisited(visited, Top.url)
            /\ discovered' = Append(discovered, Top.url)
            /\ IF config.timeout <= 0
               THEN \* requests.get raises ValueError, which _fetch_page
                    \* does not catch
                    /\ pc' = "crawl_raised"
                    /\ stack' = <<>>
                    /\ UNCHANGED <<fetchLog, links, netCount>>
               ELSE \E pg \in LinkOptions(Top.url) :
                    /\ links' = [links EXCEPT ![Top.url] = pg]
                    /\ fetchLog' = Append(fetchLog, Top.url)
                    /\ netCount' = netCount + 1
                    /\ pc' = pc
                    /\ stack' = IF pg.ok
                                THEN Append(Pop, [Top EXCEPT
                                        !.state = "loop",
                                        !.links = ExtractLinks(Top.url, pg.hrefs)])
                                ELSE Pop
    /\ UNCHANGED <<config, pages, beh, outcome, target, nCalls>>
    /\ UNCHANGED <<scan_results, discovered_urls, futures, ret, raised, calls,
                   probes, contrib, crawlRaised>>
    /\ UNCHANGED rateVars
    /\ UNCHANGED pureVars
    /\ UNCHANGED history

\* _crawl_recursive, lines 149-153: one turn of the loop over the links.
CrawlLoop ==
    /\ pc = "crawl"
    /\ stack # <<>>
    /\ Top.state = "loop"
    /\ IF Top.i > Len(Top.links)
       THEN stack' = Pop
       ELSE LET link == Top.links[Top.i]
                next == Append(Pop, [Top EXCEPT !.i = Top.i + 1])
            IN  stack' = IF link \notin visited
                         THEN Append(next, Frame(link, Top.depth + 1))
                         ELSE next
    /\ UNCHANGED <<pc, visited, discovered, fetchLog, links, netCount>>
    /\ UNCHANGED <<config, pages, beh, outcome, target, nCalls>>
    /\ UNCHANGED <<scan_results, discovered_urls, futures, ret, raised, calls,
                   probes, contrib, crawlRaised>>
    /\ UNCHANGED rateVars
    /\ UNCHANGED pureVars
    /\ UNCHANGED history

\* An exception no handler of the crawler catches (MemoryError,
\* RecursionError, an error of the HTTP library that is no
\* RequestException) leaves crawl.
CrawlFault ==
    /\ pc = "crawl"
    /\ stack # <<>>
    /\ pc' = "crawl_raised"
    /\ stack' = <<>>
    /\ UNCHANGED <<visited, discovered, fetchLog, links, netCount>>
    /\ UNCHANGED <<config, pages, beh, outcome, target, nCalls>>
    /\ UNCHANGED <<scan_results, discovered_urls, futures, ret, raised, calls,
                   probes, contrib, crawlRaised>>
    /\ UNCHANGED rateVars
    /\ UNCHANGED pureVars
    /\ UNCHANGED history

(***************************************************************************)
(* WebCrawler.crawl called on its own, over every small site.              *)
(***************************************************************************)

MaxDepth == 2

ValidConfig(d) == [max_threads |-> 2, max_depth |-> d, timeout |-> 5, rate_limit |-> 0]

\* A URL with a query string, for scan_fast.
ItemUrl == [host |-> StartHost, path |-> "/item", query |-> << <<"id", "1">> >>]
PageUrls == AllUrls \cup {ItemUrl}

\* The places of a task where an unexpected exception may be raised.
FaultOptions == { {}, {<<1, "sqli">>}, {<<1, "xss">>}, {<<0, "params">>} }

\* What the task of each URL gives on a site, for each place where an
\* exception may be raised in it.
TaskOutcomes(pgs, b, timeout) ==
    [u \in SiteUrls, faults \in FaultOptions |->
        ScanSingleUrl(u, pgs[u], b, faults, timeout)]

NoPage == [ok |-> FALSE, forms |-> <<>>]
NoBeh == [kind |-> "static", field |-> ""]

IdleScan ==
    /\ scan_results = <<>>
    /\ discovered_urls = <<>>
    /\ futures = <<>>
    /\ ret = <<>>
    /\ raised = FALSE
    /\ calls = <<>>
    /\ probes = <<>>
    /\ contrib = <<>>
    /\ netCount = 0
    /\ crawlRaised = FALSE
    /\ history = <<>>

IdlePure ==
    /\ input = [fn |-> "none"]
    /\ output = FALSE

IdleCrawl ==
    /\ visited = {}
    /\ discovered = <<>>
    /\ stack = <<>>
    /\ fetchLog = <<>>

IdleRate ==
    /\ now = 0
    /\ last_request_time = 0
    /\ thr = <<>>
    /\ dispatches = <<>>
    /\ injection_count = 0
    /\ error_count = 0

InitCrawl ==
    /\ config \in {ValidConfig(d) : d \in 0..MaxDepth}
    /\ links = [u \in AllUrls |-> UnknownPage]
    /\ pages = [u \in PageUrls |-> NoPage]
    /\ beh = NoBeh
    /\ outcome = TaskOutcomes(pages, beh, config.timeout)
    /\ pc = "idle"
    /\ target = Url(StartHost, "/")
    /\ nCalls = 0
    /\ IdleCrawl
    /\ IdleScan
    /\ IdlePure
    /\ IdleRate

KeepVisited(v) == v

\* crawl, line 115: self.visited.clear()
ClearVisited(v) == {}

ReusedAccumulator(d) == d

\* crawl, line 116: discovered_urls = []
NewAccumulator(d) == <<>>

\* A crawl call that returned: its start URL and the sequence it returned.
Crawled(t, urls) == [op |-> "crawl", target |-> t, urls |-> urls]

\* A call of the scanner that returned.  Of a scan in which no exception
\* was injected, the target and the set of (type, endpoint, payload) it
\* found are remembered; of any other call, only that it was made.
Returned(op, t, found, clean) ==
    IF op = "scan" /\ clean
    THEN [op |-> "scan", target |-> t, found |-> Range(found)]
    ELSE [op |-> "other"]

\* When a call starts, only the call that returned last is remembered.
Latest(h) == IF h = <<>> THEN <<>> ELSE <<h[Len(h)]>>

\* crawl, lines 115-118
CrawlCall(start_url) ==
    /\ pc \in {"idle", "crawled", "crawl_raised"}
    /\ nCalls' = nCalls + 1
    /\ target' = start_url
    /\ visited' = ClearVisited(visited)
    /\ discovered' = NewAccumulator(discovered)
    /\ fetchLog' = <<>>
    /\ netCount' = 0
    /\ stack' = <<Frame(start_url, 0)>>
    /\ pc' = "crawl"
    /\ UNCHANGED siteVars
    /\ UNCHANGED <<scan_results, discovered_urls, futures, ret, raised, calls,
                   probes, contrib, crawlRaised>>
    /\ UNCHANGED rateVars
    /\ UNCHANGED pureVars
    /\ history' = Latest(history)

\* crawl returns the accumulator.
CrawlReturn ==
    /\ pc = "crawl"
    /\ stack = <<>>
    /\ pc' = "crawled"
    /\ ret' = discovered
    /\ UNCHANGED siteVars
    /\ UNCHANGED crawlVars
    /\ UNCHANGED <<target, nCalls>>
    /\ UNCHANGED <<scan_results, discovered_urls, futures, raised, calls,
                   probes, contrib, netCount, crawlRaised>>
    /\ UNCHANGED rateVars
    /\ UNCHANGED pureVars
    /\ history' = Append(history, Crawled(target, discovered))

NextCrawl ==
    \/ \E u \in SiteUrls : nCalls = 0 /\ CrawlCall(u)
    \/ CrawlEnter
    \/ CrawlLoop
    \/ CrawlReturn

SpecCrawl == InitCrawl /\ [][NextCrawl]_vars

\* The scheduling of a single thread: a step that can be taken is taken.
SpecCrawlFair == SpecCrawl /\ WF_vars(NextCrawl)

NoDuplicates(q) == \A i, j \in DOMAIN q : i # j => q[i] # q[j]

\* C5: the sequence crawl accumulates and returns holds no URL twice, and
\* every URL in it has the host of the start URL.
C5_NoDuplicatesSameHost ==
    /\ NoDuplicates(discovered)
    /\ \A i \in DOMAIN discovered : discovered[i].host = target.host
    /\ pc = "crawled" => ret = discovered

\* A crawl that returned every page of the site, from a start page that
\* links to the other host and to a page that links twice to a third.
C5_Witness ==
    /\ pc = "crawled"
    /\ Len(ret) = Cardinality(SiteUrls)
    /\ \E u \in SiteUrls \ {target} :
          /\ links[target].hrefs = <<AbsHref(OtherHost, "/"), RelHref(u.path)>>
          /\ \E v \in SiteUrls \ {target, u} :
                links[u].hrefs = <<RelHref(v.path), RelHref(v.path)>>

\* C6: every crawl call returns, and no URL is fetched twice in one call.
C6_TerminatesFetchOnce ==
    /\ [](NoDuplicates(fetchLog))
    /\ [](pc = "crawl" => <>(pc = "crawled"))

\* A crawl that returned after fetching a page that links to itself and is
\* linked back from a page it links to.
C6_Witness ==
    /\ pc = "crawled"
    /\ config.max_depth = MaxDepth
    /\ \E u \in SiteUrls \ {target} :
          /\ links[target].hrefs = <<RelHref(target.path), RelHref(u.path)>>
          /\ links[u].known /\ links[u].hrefs = <<RelHref(target.path)>>
    /\ Len(fetchLog) = 2


(***************************************************************************)
(* core/scanner_v2.py: VulnerabilityScanner.scan and scan_fast             *)
(***************************************************************************)

MaxScans == 2

\* The form of the first scenario: GET /search with one field q.
SearchForm ==
    [action |-> "/search", method |-> NoAttr,
     inputs |-> << [name |-> "q", type |-> NoAttr] >>,
     textareas |-> <<>>]

\* A form whose only field is a textarea.
CommentForm(action) ==
    [action |-> action, method |-> "POST",
     inputs |-> <<>>,
     textareas |-> << [name |-> "comment"] >>]

OkPage(forms) == [ok |-> TRUE, forms |-> forms]

\* The sites the scans run on: a page that links to a second one and to
\* the other host, the second one linking back; a single page; a start
\* page whose fetch fails.
ScanLinks ==
    { [u \in AllUrls |->
          IF u = Url(StartHost, "/")
          THEN LinkPage(<<RelHref("/x"), AbsHref(OtherHost, "/")>>)
          ELSE IF u = Url(StartHost, "/x") THEN LinkPage(<<RelHref("/")>>)
          ELSE BrokenPage],
      [u \in AllUrls |->
          IF u = Url(StartHost, "/") THEN LinkPage(<<>>) ELSE BrokenPage],
      [u \in AllUrls |-> BrokenPage] }

ScanPages ==
    [u \in PageUrls |->
        IF u = Url(StartHost, "/") THEN OkPage(<<CommentForm("/comment")>>)
        ELSE IF u = Url(StartHost, "/x") THEN OkPage(<<CommentForm(NoAttr)>>)
        ELSE IF u = ItemUrl THEN OkPage(<<SearchForm>>)
        ELSE NoPage]

\* The fetch of the start page's forms fails, the others succeed.
PartlyFailingPages ==
    [u \in PageUrls |-> IF u = Url(StartHost, "/") THEN NoPage ELSE ScanPages[u]]

\* The valid configuration and one configuration per invalid value.
Configs ==
    { [max_threads |-> 2, max_depth |-> 1, timeout |-> 5, rate_limit |-> 0],
      [max_threads |-> 1, max_depth |-> 1, timeout |-> 5, rate_limit |-> 0],
      [max_threads |-> 0, max_depth |-> 1, timeout |-> 5, rate_limit |-> 0],
      [max_threads |-> 2, max_depth |-> 1, timeout |-> 0, rate_limit |-> 0],
      [max_threads |-> 2, max_depth |-> -1, timeout |-> 5, rate_limit |-> 0],
      [max_threads |-> 2, max_depth |-> 1, timeout |-> 5, rate_limit |-> -1] }

\* config_v2.validate_config
ConfigValid(c) ==
    /\ c.max_depth >= 0
    /\ c.timeout > 0
    /\ c.max_threads > 0
    /\ c.rate_limit >= 0

\* How the target answers during the scans.
ScanBehs ==
    { [kind |-> "sqli_quote", field |-> "input"],
      [kind |-> "static", field |-> ""],
      [kind |-> "down", field |-> ""] }

\* A submitted task; faults records where an unexpected exception was
\* raised inside it once it has run.
Queued(i) == [state |-> "queued", results |-> <<>>, faults |-> {}]

ExtendNothing(acc, results) == acc


CollectReplace(acc, results) == results

ExtendPrepend(acc, results) == results \o acc

\* line 146: self.scan_results.extend(results)
Extend(acc, results) == acc \o results

\* scan, lines 125-131: the findings are cleared and the crawl starts.
ScanStart(target_url) ==
    /\ pc \in {"idle", "returned"}
    /\ nCalls < MaxScans
    /\ nCalls' = nCalls + 1
    /\ target' = target_url
    /\ scan_results' = <<>>
    /\ visited' = ClearVisited(visited)
    /\ discovered' = NewAccumulator(discovered)
    /\ fetchLog' = <<>>
    /\ stack' = <<Frame(target_url, 0)>>
    /\ pc' = "crawl"
    /\ futures' = <<>>
    /\ ret' = <<>>
    /\ raised' = FALSE
    /\ calls' = <<>>
    /\ probes' = <<>>
    /\ contrib' = <<>>
    /\ netCount' = 0
    /\ crawlRaised' = FALSE
    /\ UNCHANGED discovered_urls
    /\ UNCHANGED siteVars
    /\ UNCHANGED rateVars
    /\ UNCHANGED pureVars
    /\ history' = Latest(history)

\* scan, lines 152-156: the crawl raised; the handler logs and scan returns
\* its findings list.
ScanCrawlRaised ==
    /\ pc = "crawl_raised"
    /\ pc' = "returned"
    /\ crawlRaised' = TRUE
    /\ ret' = scan_results
    /\ UNCHANGED siteVars
    /\ UNCHANGED crawlVars
    /\ UNCHANGED <<target, nCalls>>
    /\ UNCHANGED <<scan_results, discovered_urls, futures, raised, calls,
                   probes, contrib, netCount>>
    /\ UNCHANGED rateVars
    /\ UNCHANGED pureVars
    /\ history' = Append(history, Returned("scan", target, scan_results,
                                           config.timeout <= 0))

\* scan, lines 131-140: the crawl returned; its result is stored, the pool
\* is made and one task per URL is submitted.  ThreadPoolExecutor raises
\* ValueError for max_workers <= 0, which the handler of line 152 catches.
ScanSubmit ==
    /\ pc = "crawl"
    /\ stack = <<>>
    /\ discovered_urls' = discovered
    /\ IF config.max_threads <= 0
       THEN /\ pc' = "returned"
            /\ ret' = scan_results
            /\ UNCHANGED futures
       ELSE /\ pc' = "pool"
            /\ futures' = [i \in DOMAIN discovered |-> Queued(i)]
            /\ UNCHANGED ret
    /\ UNCHANGED siteVars
    /\ UNCHANGED crawlVars
    /\ UNCHANGED <<target, nCalls>>
    /\ UNCHANGED <<scan_results, raised, calls, probes, contrib, netCount,
                   crawlRaised>>
    /\ UNCHANGED rateVars
    /\ UNCHANGED pureVars
    /\ history' = IF config.max_threads <= 0
                  THEN Append(history, Returned("scan", target, scan_results,
                                                TRUE))
                  ELSE history

Running == {i \in DOMAIN futures : futures[i].state = "running"}

\* A free worker takes the oldest queued task.
TaskStart(i) ==
    /\ pc = "pool"
    /\ i \in DOMAIN futures
    /\ futures[i].state = "queued"
    /\ \A j \in 1..(i - 1) : futures[j].state # "queued"
    /\ Cardinality(Running) < config.max_threads
    /\ futures' = [futures EXCEPT ![i].state = "running"]
    /\ UNCHANGED siteVars
    /\ UNCHANGED crawlVars
    /\ UNCHANGED <<pc, target, nCalls>>
    /\ UNCHANGED <<scan_results, discovered_urls, ret, raised, calls, probes,
                   contrib, netCount, crawlRaised>>
    /\ UNCHANGED rateVars
    /\ UNCHANGED pureVars
    /\ UNCHANGED history

\* The task's _scan_single_url returns.
TaskFinish(i) ==
    /\ pc = "pool"
    /\ i \in DOMAIN futures
    /\ futures[i].state = "running"
    /\ \E faults \in FaultOptions :
          \E r \in {outcome[discovered_urls[i], faults]} :
              /\ futures' = [futures EXCEPT ![i] =
                                [state |-> "done", results |-> r.results,
                                 faults |-> faults]]
              /\ netCount' = netCount + NetOf(r)
    /\ UNCHANGED siteVars
    /\ UNCHANGED crawlVars
    /\ UNCHANGED <<pc, target, nCalls>>
    /\ UNCHANGED <<scan_results, discovered_urls, ret, raised, calls, probes,
                   contrib, crawlRaised>>
    /\ UNCHANGED rateVars
    /\ UNCHANGED pureVars
    /\ UNCHANGED history

\* scan, lines 142-150: as_completed yields a finished future and its
\* findings are appended.
Collect(i) ==
    /\ pc = "pool"
    /\ i \in DOMAIN futures
    /\ futures[i].state = "done"
    /\ scan_results' = Extend(scan_results, futures[i].results)
    /\ contrib' = Append(contrib, [task |-> i, url |-> discovered_urls[i],
                                   results |-> futures[i].results])
    /\ futures' = [futures EXCEPT ![i].state = "collected"]
    /\ UNCHANGED siteVars
    /\ UNCHANGED crawlVars
    /\ UNCHANGED <<pc, target, nCalls>>
    /\ UNCHANGED <<discovered_urls, ret, raised, calls, probes, netCount,
                   crawlRaised>>
    /\ UNCHANGED rateVars
    /\ UNCHANGED pureVars
    /\ UNCHANGED history

AllCollectedNoWait == TRUE

\* lines 142-150: as_completed is exhausted once it has yielded every
\* future, and the with block waits for the pool.
AllCollected == \A i \in DOMAIN futures : futures[i].state = "collected"

\* scan, lines 150-156: every future was yielded, the pool shuts down and
\* scan returns its findings list.
ScanReturn ==
    /\ pc = "pool"
    /\ AllCollected
    /\ pc' = "returned"
    /\ ret' = scan_results
    /\ UNCHANGED siteVars
    /\ UNCHANGED crawlVars
    /\ UNCHANGED <<target, nCalls>>
    /\ UNCHANGED <<scan_results, discovered_urls, futures, raised, calls,
                   probes, contrib, netCount, crawlRaised>>
    /\ UNCHANGED rateVars
    /\ UNCHANGED pureVars
    /\ history' = Append(history,
                         Returned("scan", target, scan_results,
                                  \A i \in DOMAIN futures : futures[i].faults = {}))

\* scan_fast, lines 168-176.
ScanFast(target_url, faults) ==
    /\ pc \in {"idle", "returned"}
    /\ nCalls < MaxScans
    /\ nCalls' = nCalls + 1
    /\ target' = target_url
    /\ \E r \in {ScanSingleUrl(target_url, pages[target_url], beh, faults,
                                config.timeout)} :
           /\ scan_results' = Extend(<<>>, r.results)
           /\ ret' = r.results
           /\ calls' = r.calls
           /\ probes' = r.probes
           /\ netCount' = NetOf(r)
           /\ contrib' = << [task |-> 1, url |-> target_url,
                              results |-> r.results] >>
           /\ history' = Append(Latest(history),
                                Returned("scan_fast", target_url, r.results,
                                         faults = {}))
    /\ discovered_urls' = <<target_url>>
    /\ pc' = "returned"
    /\ futures' = <<>>
    /\ raised' = FALSE
    /\ crawlRaised' = FALSE
    \* no crawl runs in this call: its accumulator and fetches are empty
    /\ discovered' = <<>>
    /\ fetchLog' = <<>>
    /\ UNCHANGED <<visited, stack>>
    /\ UNCHANGED siteVars
    /\ UNCHANGED rateVars
    /\ UNCHANGED pureVars

Init ==
    /\ config \in Configs
    /\ links \in ScanLinks
    \* all form pages served, every fetch of a form page failing, the
    \* start page's alone failing
    /\ pages \in {ScanPages, [u \in PageUrls |-> NoPage], PartlyFailingPages}
    /\ beh \in ScanBehs
    /\ outcome = TaskOutcomes(pages, beh, config.timeout)
    /\ pc = "idle"
    /\ target = Url(StartHost, "/")
    /\ nCalls = 0
    /\ IdleCrawl
    /\ IdleScan
    /\ IdlePure
    /\ IdleRate

Next ==
    \/ \E t \in {Url(StartHost, "/"), Url(StartHost, "/x")} : ScanStart(t)
    \/ CrawlEnter
    \/ CrawlLoop
    \/ CrawlFault
    \/ ScanCrawlRaised
    \/ ScanSubmit
    \/ \E i \in 1..Cardinality(SiteUrls) : TaskStart(i)
    \/ \E i \in 1..Cardinality(SiteUrls) : TaskFinish(i)
    \/ \E i \in 1..Cardinality(SiteUrls) : Collect(i)
    \/ ScanReturn
    \/ \E t \in {Url(StartHost, "/"), ItemUrl} : \E f \in FaultOptions : ScanFast(t, f)

Spec == Init /\ [][Next]_vars

\* The pool's workers and the calling thread run whenever they can; each
\* network operation returns or fails within its timeout.
FairSpec == Spec /\ WF_vars(CrawlEnter \/ CrawlLoop \/ ScanCrawlRaised
                             \/ ScanSubmit \/ ScanReturn
                             \/ \E i \in 1..Cardinality(SiteUrls) :
                                   TaskStart(i) \/ TaskFinish(i) \/ Collect(i))

(***************************************************************************)
(* scan_fast on one page, over the shapes a form may have and the ways     *)
(* the target may answer.                                                  *)
(***************************************************************************)

\* A form with two named inputs.
LoginForm ==
    [action |-> "/login", method |-> "post",
     inputs |-> << [name |-> "user", type |-> "text"],
                   [name |-> "pass", type |-> "password"] >>,
     textareas |-> <<>>]

\* A form whose only input is hidden.
HiddenForm ==
    [action |-> "/token", method |-> NoAttr,
     inputs |-> << [name |-> "token", type |-> "hidden"] >>,
     textareas |-> <<>>]

\* A form whose only input carries no name.
AnonForm ==
    [action |-> "/anon", method |-> NoAttr,
     inputs |-> << [name |-> NoAttr, type |-> NoAttr] >>,
     textareas |-> <<>>]

FastPages ==
    { NoPage,
      OkPage(<<>>),
      OkPage(<<SearchForm>>),
      OkPage(<<LoginForm>>),
      OkPage(<<HiddenForm>>),
      OkPage(<<AnonForm>>),
      OkPage(<<CommentForm("/comment")>>),
      OkPage(<<CommentForm(NoAttr)>>),
      OkPage(<<SearchForm, CommentForm("/comment")>>),
      OkPage(<<HiddenForm, CommentForm("/comment")>>),
      OkPage(<<CommentForm("/comment"), CommentForm("/reply")>>) }

FastBehs ==
    { [kind |-> "static", field |-> ""], [kind |-> "down", field |-> ""] }
    \cup { [kind |-> k, field |-> f] :
              k \in {"sqli_first", "sqli_quote", "echo", "blind",
                      "sqli_comment", "echo_img"},
              f \in {"q", "input", "id"} }

InitFast ==
    /\ config = ValidConfig(0)
    /\ links = [u \in AllUrls |-> UnknownPage]
    /\ pages \in {[u \in PageUrls |-> pg] : pg \in FastPages}
    /\ beh \in FastBehs
    /\ outcome = TaskOutcomes(pages, beh, config.timeout)
    /\ pc = "idle"
    /\ target = Url(StartHost, "/")
    /\ nCalls = 0
    /\ IdleCrawl
    /\ IdleScan
    /\ IdlePure
    /\ IdleRate

NextFast ==
    \E t \in {Url(StartHost, "/"), ItemUrl} : nCalls = 0 /\ ScanFast(t, {})

SpecFast == InitFast /\ [][NextFast]_vars

\* The names of the fields _parse_form recorded for a form.
FieldNames(form) ==
    {form.inputs[i].name : i \in DOMAIN form.inputs}
    \cup {form.textareas[i].name : i \in DOMAIN form.textareas}

\* C1: on a single page with one GET form, action "/search" and one named
\* input q, where the target answers q=' OR '1'='1 with the MySQL syntax
\* error and everything else with one fixed body, the scan returns exactly
\* one finding: SQL Injection, endpoint "/search", payload ' OR '1'='1.
C1_OneSqliFinding ==
    ( /\ pc = "returned"
      /\ target = Url(StartHost, "/")
      /\ pages[target] = OkPage(<<SearchForm>>)
      /\ beh = [kind |-> "sqli_first", field |-> "q"] )
    => ret = << <<"SQL Injection", "/search", "' OR '1'='1">> >>

\* C2: on the same page, where the target echoes the value of q verbatim,
\* the scan returns exactly one Reflected XSS finding, endpoint "/search",
\* payload <script>alert(1)</script>.
C2_OneXssFinding ==
    ( /\ pc = "returned"
      /\ target = Url(StartHost, "/")
      /\ pages[target] = OkPage(<<SearchForm>>)
      /\ beh = [kind |-> "echo", field |-> "q"] )
    => /\ Len(ret) = 1
       /\ ret[1] = <<"Reflected XSS", "/search", "<script>alert(1)</script>">>

\* C3: every inject call on an extracted form dispatches exactly one
\* request; its parameters give the payload to every named field of the
\* form, and are the single field "input" only when the form has no named
\* field.
C3_InjectSendsPayloadToNamedFields ==
    pc = "returned" =>
        \A k \in DOMAIN calls :
            /\ Len(calls[k].sent) = 1
            /\ calls[k].sent[1].params =
                  IF FieldNames(ExtractForms(pages[target])[calls[k].form + 1]) = {}
                  THEN [n \in {"input"} |-> calls[k].payload]
                  ELSE [n \in FieldNames(ExtractForms(pages[target])[calls[k].form + 1])
                          |-> calls[k].payload]

(***************************************************************************)
(* PayloadInjector.apply_rate_limit, called by the threads of the pool.    *)
(* Time is counted in ticks; a dispatch is stamped with the time           *)
(* apply_rate_limit records for it.                                        *)
(***************************************************************************)

MaxThreads == 2
MaxDelay == 2
MaxTime == 3
MaxCalls == 2

Threads == DOMAIN thr

InitRate ==
    /\ config \in {[max_threads |-> n, max_depth |-> 0, timeout |-> 5, rate_limit |-> d] :
                      n \in 1..MaxThreads, d \in 0..MaxDelay}
    /\ links = [u \in AllUrls |-> UnknownPage]
    /\ pages = [u \in PageUrls |-> NoPage]
    /\ beh = NoBeh
    /\ outcome = TaskOutcomes(pages, beh, config.timeout)
    /\ pc = "pool"
    /\ target = Url(StartHost, "/")
    /\ nCalls = 0
    /\ IdleCrawl
    /\ IdleScan
    /\ IdlePure
    \* last_request_time starts at 0 and the clock far from it: the first
    \* call does not sleep
    /\ now = MaxDelay
    /\ last_request_time = 0
    /\ thr = [t \in 1..config.max_threads |->
                 [pc |-> "idle", wake |-> 0, left |-> MaxCalls]]
    /\ dispatches = <<>>
    /\ injection_count = 0
    /\ error_count = 0

\* line 34: elapsed = time.time() - self.last_request_time, and the test
\* of line 35.
ApplyRateLimitRead(t) ==
    /\ thr[t].pc = "idle"
    /\ thr[t].left > 0
    /\ thr' = [thr EXCEPT ![t] =
                 IF now - last_request_time < config.rate_limit
                 THEN [@ EXCEPT !.pc = "sleep",
                                !.wake = now + (config.rate_limit
                                                - (now - last_request_time))]
                 ELSE [@ EXCEPT !.pc = "record"]]
    /\ UNCHANGED <<now, last_request_time, dispatches, injection_count, error_count>>
    /\ UNCHANGED <<siteVars, crawlVars, scanVars, pc, target, nCalls>>
    /\ UNCHANGED pureVars
    /\ UNCHANGED history

\* line 36: time.sleep returns once the delay has passed.
ApplyRateLimitWake(t) ==
    /\ thr[t].pc = "sleep"
    /\ now >= thr[t].wake
    /\ thr' = [thr EXCEPT ![t].pc = "record"]
    /\ UNCHANGED <<now, last_request_time, dispatches, injection_count, error_count>>
    /\ UNCHANGED <<siteVars, crawlVars, scanVars, pc, target, nCalls>>
    /\ UNCHANGED pureVars
    /\ UNCHANGED history

\* line 37: self.last_request_time = time.time(); the request follows.
ApplyRateLimitRecord(t) ==
    /\ thr[t].pc = "record"
    /\ last_request_time' = now
    /\ dispatches' = Append(dispatches, now)
    /\ thr' = [thr EXCEPT ![t].pc = "idle", ![t].left = @ - 1]
    /\ UNCHANGED <<now, injection_count, error_count>>
    /\ UNCHANGED <<siteVars, crawlVars, scanVars, pc, target, nCalls>>
    /\ UNCHANGED pureVars
    /\ UNCHANGED history

\* Time passes.
Tick ==
    /\ now < MaxDelay + MaxTime
    /\ now' = now + 1
    /\ UNCHANGED <<last_request_time, thr, dispatches, injection_count, error_count>>
    /\ UNCHANGED <<siteVars, crawlVars, scanVars, pc, target, nCalls>>
    /\ UNCHANGED pureVars
    /\ UNCHANGED history

NextRate ==
    \/ \E t \in Threads : ApplyRateLimitRead(t)
    \/ \E t \in Threads : ApplyRateLimitWake(t)
    \/ \E t \in Threads : ApplyRateLimitRecord(t)
    \/ Tick

SpecRate == InitRate /\ [][NextRate]_vars

\* C4: any two successive dispatches of one injector are at least
\* rate_limit_delay apart, whatever the interleaving of the threads that
\* call inject.
C4_DispatchSpacing ==
    \A i \in 1..(Len(dispatches) - 1) :
        dispatches[i + 1] - dispatches[i] >= config.rate_limit

(***************************************************************************)
(* Properties of scan and scan_fast                                        *)
(***************************************************************************)

\* C7: after an invocation returns, the findings are those of this
\* invocation's tasks and the discovered URLs are URLs this invocation
\* found (the target, or what its crawl accumulated), also when its crawl
\* raised.
C7_StateOfThisInvocationOnly ==
    pc = "returned" =>
        /\ scan_results = Flatten([k \in DOMAIN contrib |-> contrib[k].results])
        /\ Range(discovered_urls) \subseteq Range(discovered) \cup {target}
        /\ Len(discovered_urls) <= Len(discovered) + 1

\* C8: with an invalid configuration no network request is made and the
\* call ends by raising to its caller.
C8_InvalidConfigRejected ==
    ~ConfigValid(config) =>
        /\ netCount = 0
        /\ pc = "returned" => raised

\* C9: with a valid configuration every scan that starts returns, it
\* never raises, and when it returns no submitted task is still queued or
\* running.
C9_ScanTerminates ==
    /\ [](ConfigValid(config) /\ pc \in {"crawl", "crawl_raised", "pool"}
            => <>(pc = "returned"))
    /\ [](ConfigValid(config) => ~raised)
    /\ [](ConfigValid(config) /\ pc = "returned" =>
            \A i \in DOMAIN futures : futures[i].state = "collected")

\* A scan that returned after two tasks while every network operation
\* failed.
C9_Witness ==
    /\ pc = "returned"
    /\ ConfigValid(config)
    /\ beh.kind = "down"
    /\ Len(futures) = 2
    /\ \A i \in DOMAIN futures : futures[i].state = "collected"
    /\ ret = <<>>

\* C10: when a scan returns, every submitted task was collected, the
\* findings are the collected tasks' findings in the order of collection,
\* and a task in which nothing was raised contributed what
\* _scan_single_url gives for its URL, whatever was raised in the others.
C10_SiblingsUnaffected ==
    (pc = "returned" /\ futures # <<>>) =>
        /\ Len(contrib) = Len(futures)
        /\ scan_results = Flatten([k \in DOMAIN contrib |-> contrib[k].results])
        /\ ret = scan_results
        /\ \A i \in DOMAIN futures :
              futures[i].faults = {} =>
                 \E k \in DOMAIN contrib :
                    /\ contrib[k].task = i
                    /\ contrib[k].results =
                          ScanSingleUrl(discovered_urls[i], pages[discovered_urls[i]],
                                        beh, {}, config.timeout).results

\* A scan that returned the findings of one task although an exception was
\* raised in its sibling, the sibling having been collected first.
C10_Witness ==
    /\ pc = "returned"
    /\ Len(futures) = 2
    /\ futures[1].faults # {}
    /\ futures[2].faults = {}
    /\ contrib[1].task = 1
    /\ futures[2].results # <<>>
    /\ ret = futures[2].results

\* C11: at every point of a scan's pool phase and at its return, the
\* findings sequence is the concatenation, in the order of collection, of
\* what each collected task returned: every collected task is there once,
\* whole and in its own order, and nothing else is.
C11_EachFindingOnce ==
    (pc \in {"pool", "returned"} /\ futures # <<>>) =>
        /\ scan_results = Flatten([k \in DOMAIN contrib |-> contrib[k].results])
        /\ \A k, l \in DOMAIN contrib :
              k # l => contrib[k].task # contrib[l].task
        /\ {contrib[k].task : k \in DOMAIN contrib} =
              {i \in DOMAIN futures : futures[i].state = "collected"}
        /\ \A k \in DOMAIN contrib :
              contrib[k].results = futures[contrib[k].task].results

\* A scan that returned the findings of two tasks, the task submitted
\* second having completed and been collected first.
C11_Witness ==
    /\ pc = "returned"
    /\ Len(futures) = 2
    /\ contrib[1].task = 2
    /\ contrib[2].task = 1
    /\ futures[1].results # <<>>
    /\ futures[2].results # <<>>
    /\ futures[1].results # futures[2].results
    /\ ret = futures[2].results \o futures[1].results

\* C12: when two scans of the same target returned one after the other,
\* no exception having been injected in either, they found the same set of
\* (type, endpoint, payload), in whatever order their tasks completed.
C12_SameFindingsTwice ==
    (/\ Len(history) = 2
     /\ history[1].op = "scan"
     /\ history[2].op = "scan"
     /\ history[1].target = history[2].target)
        => history[1].found = history[2].found

\* Two scans of the same target in succession that both found something on
\* two pages, the second having collected its tasks in reverse order.
C12_Witness ==
    /\ pc = "returned"
    /\ Len(history) = 2
    /\ history[1].op = "scan"
    /\ history[2].op = "scan"
    /\ history[1].target = history[2].target
    /\ Cardinality(history[2].found) >= 2
    /\ Len(contrib) = 2
    /\ contrib[1].task = 2

(***************************************************************************)
(* Properties of the detectors' scan_form, read off the inject calls of    *)
(* scan_fast.                                                              *)
(***************************************************************************)

\* C13: for every form scan_fast scanned, the inject calls of the
\* error-based loop carry the SQL catalog's payloads in catalog order up to
\* and including the first whose response holds an SQL error (the whole
\* catalog when none does), those of the XSS loop the XSS catalog's up to
\* the first reflected one, and the findings hold one SQL Injection or
\* Reflected XSS entry for the form exactly when a payload triggered, with
\* the earliest triggering payload.
C13_StopAtFirstHit ==
    pc = "returned" =>
        \A f \in DOMAIN FormsOf(pages[target], config.timeout) :
            LET form == FormsOf(pages[target], config.timeout)[f]
                cs == SelectSeq(calls, LAMBDA c : c.form = form.id)
                S == {i \in DOMAIN SQLI_PAYLOADS :
                        detect_sqli_error(
                            Inject(target, form, SQLI_PAYLOADS[i], "", beh).text)}
                X == {i \in DOMAIN XSS_PAYLOADS :
                        detect_xss_reflected(
                            Inject(target, form, XSS_PAYLOADS[i], "", beh).text,
                            XSS_PAYLOADS[i])}
                n == IF S = {} THEN Len(SQLI_PAYLOADS)
                     ELSE CHOOSE i \in S : \A j \in S : i <= j
                m == IF X = {} THEN Len(XSS_PAYLOADS)
                     ELSE CHOOSE i \in X : \A j \in X : i <= j
                sq == {k \in DOMAIN ret : /\ ret[k][1] = "SQL Injection"
                                          /\ ret[k][2] = form.action}
                xs == {k \in DOMAIN ret : /\ ret[k][1] = "Reflected XSS"
                                          /\ ret[k][2] = form.action}
            IN  HasVulnerableInputs(form) =>
                   /\ Len(cs) = n + 2 + m
                   /\ \A i \in 1..n : cs[i].payload = SQLI_PAYLOADS[i]
                   /\ \A i \in 1..m : cs[n + 2 + i].payload = XSS_PAYLOADS[i]
                   /\ Cardinality(sq) = IF S = {} THEN 0 ELSE 1
                   /\ \A k \in sq : ret[k][3] = SQLI_PAYLOADS[n]
                   /\ Cardinality(xs) = IF X = {} THEN 0 ELSE 1
                   /\ \A k \in xs : ret[k][3] = XSS_PAYLOADS[m]

\* A scan_fast on a page with one form, where the second SQL payload was
\* the first to trigger and the last two were never injected by the loop.
C13_Witness ==
    /\ pc = "returned"
    /\ pages[target] = OkPage(<<CommentForm("/comment")>>)
    /\ Len(calls) = 2 + 2 + 3
    /\ calls[1].payload = SQLI_PAYLOADS[1]
    /\ calls[2].payload = SQLI_PAYLOADS[2]
    /\ calls[3].payload = BOOL_TRUE_PAYLOAD
    /\ calls[5].payload = XSS_PAYLOADS[1]
    /\ ret = << <<"SQL Injection", "/comment", SQLI_PAYLOADS[2]>> >>

\* C14: for every form scan_fast scanned, the two inject calls that follow
\* the error-based loop carry "' OR 1=1--" and then "' OR 1=2--", whether
\* or not the loop hit, and the findings hold a Blind SQL Injection entry
\* for the form exactly when detect_sqli_boolean is true on the two
\* responses.
C14_BlindCheckAlwaysRuns ==
    pc = "returned" =>
        \A f \in DOMAIN FormsOf(pages[target], config.timeout) :
            LET form == FormsOf(pages[target], config.timeout)[f]
                cs == SelectSeq(calls, LAMBDA c : c.form = form.id)
                S == {i \in DOMAIN SQLI_PAYLOADS :
                        detect_sqli_error(
                            Inject(target, form, SQLI_PAYLOADS[i], "", beh).text)}
                n == IF S = {} THEN Len(SQLI_PAYLOADS)
                     ELSE CHOOSE i \in S : \A j \in S : i <= j
                blind == <<"Blind SQL Injection", form.action, "Boolean Based">>
            IN  HasVulnerableInputs(form) =>
                   /\ Len(cs) >= n + 2
                   /\ cs[n + 1].payload = BOOL_TRUE_PAYLOAD
                   /\ cs[n + 2].payload = BOOL_FALSE_PAYLOAD
                   /\ Cardinality({k \in DOMAIN ret : ret[k] = blind}) <= 1
                   /\ blind \in Range(ret) <=>
                         detect_sqli_boolean(
                             Inject(target, form, BOOL_TRUE_PAYLOAD, "", beh).text,
                             Inject(target, form, BOOL_FALSE_PAYLOAD, "", beh).text)

\* A scan_fast whose error-based loop hit on its first payload and which
\* then made the two boolean injections, each sending its request.
C14_Witness ==
    /\ pc = "returned"
    /\ pages[target] = OkPage(<<CommentForm("/comment")>>)
    /\ beh.kind = "sqli_first"
    /\ ret = << <<"SQL Injection", "/comment", SQLI_PAYLOADS[1]>> >>
    /\ calls[2].payload = BOOL_TRUE_PAYLOAD
    /\ calls[3].payload = BOOL_FALSE_PAYLOAD
    /\ Len(calls[2].sent) = 1
    /\ Len(calls[3].sent) = 1

(***************************************************************************)
(* detect_sqli_boolean, detect_xss_reflected, inject and                   *)
(* scan_url_parameters, each called once on its own over a range of        *)
(* arguments.                                                              *)
(***************************************************************************)

MaxLen == 100

\* A response body of n characters.
RECURSIVE Body(_)
Body(n) ==
    IF n = 0 THEN ""
    ELSE IF n % 2 = 1 THEN "x" \o Body(n - 1)
    ELSE Body(n \div 2) \o Body(n \div 2)

BooleanInputs ==
    { [fn |-> "detect_sqli_boolean", resp_true |-> Body(a), resp_false |-> Body(b)] :
         a, b \in 0..MaxLen }

\* html.escape as a target applies it to a reflected value.
RECURSIVE HtmlEscape(_)
HtmlEscape(s) ==
    IF Len(s) = 0 THEN ""
    ELSE IF Len(s) = 1
    THEN CASE s = "&" -> "&amp;"
           [] s = "<" -> "&lt;"
           [] s = ">" -> "&gt;"
           [] s = "\"" -> "&quot;"
           [] s = "'" -> "&#x27;"
           [] OTHER -> s
    ELSE HtmlEscape(SubSeq(s, 1, Len(s) \div 2))
         \o HtmlEscape(SubSeq(s, (Len(s) \div 2) + 1, Len(s)))

\* The payloads are those of the catalog, the empty one and two plain
\* ones; the responses hold one of them verbatim, entity-encoded or cut
\* short, or none at all.
XssInputs ==
    LET arguments == Range(XSS_PAYLOADS) \cup {"", "alert(1)", "a&b"}
        responses ==
            {"", FixedBody}
            \cup { pre \o v \o post :
                      pre \in {"", "<p>Hello "}, post \in {"", "</p>"},
                      v \in arguments
                            \cup {HtmlEscape(w) : w \in arguments}
                            \cup {SubSeq(w, 1, Len(w) - 1) : w \in Range(XSS_PAYLOADS)} }
    IN  { [fn |-> "detect_xss_reflected", response |-> r, payload |-> p] :
             r \in responses, p \in arguments }

InjectInputs ==
    { [fn |-> "inject", url |-> u, form |-> f, payload |-> p, method |-> m] :
         u \in {Url(StartHost, "/"), ItemUrl},
         f \in { ParseForm(SearchForm, 0), ParseForm(LoginForm, 0),
                 ParseForm(CommentForm("/comment"), 0),
                 ParseForm(CommentForm(NoAttr), 1), ParseForm(AnonForm, 0) },
         p \in {SQLI_PAYLOADS[1], XSS_PAYLOADS[1], ""},
         m \in {"", "POST", "get"} }

InitPure ==
    /\ \/ input \in BooleanInputs \cup XssInputs /\ beh = NoBeh
       \/ /\ input \in InjectInputs
          /\ beh \in { [kind |-> "static", field |-> ""],
                       [kind |-> "down", field |-> ""],
                       [kind |-> "slow", field |-> ""],
                       [kind |-> "echo", field |-> "input"],
                       [kind |-> "sqli_quote", field |-> "input"] }
       \* URLs without a query string, with one key, with two keys, and
       \* with a key whose value is blank; no key occurs twice
       \/ /\ input \in { [fn |-> "scan_url_parameters",
                            url |-> [ItemUrl EXCEPT !.query = q]] :
                              q \in { <<>>,
                                      << <<"id", "1">> >>,
                                      << <<"id", "1">>, <<"cat", "3">> >>,
                                      << <<"id", "1">>, <<"debug", "">> >> } }
          /\ beh \in { [kind |-> "static", field |-> ""],
                       [kind |-> "down", field |-> ""],
                       [kind |-> "echo", field |-> "id"],
                       [kind |-> "echo", field |-> "cat"],
                       [kind |-> "sqli_quote", field |-> "id"] }
    /\ output = FALSE
    /\ config = ValidConfig(0)
    /\ links = [u \in AllUrls |-> UnknownPage]
    /\ pages = [u \in PageUrls |-> NoPage]
    /\ outcome = TaskOutcomes(pages, NoBeh, config.timeout)
    /\ pc = "idle"
    /\ target = Url(StartHost, "/")
    /\ nCalls = 0
    /\ IdleCrawl
    /\ IdleScan
    /\ IdleRate

\* What every call of a single function leaves alone.
PureFrame ==
    /\ pc' = "returned"
    /\ UNCHANGED input
    /\ UNCHANGED <<siteVars, crawlVars, scanVars, rateVars, target, nCalls, history>>

DetectSqliBoolean ==
    /\ pc = "idle"
    /\ input.fn = "detect_sqli_boolean"
    /\ output' = detect_sqli_boolean(input.resp_true, input.resp_false)
    /\ PureFrame

DetectXssReflected ==
    /\ pc = "idle"
    /\ input.fn = "detect_xss_reflected"
    /\ output' = detect_xss_reflected(input.response, input.payload)
    /\ PureFrame

InjectCall ==
    /\ pc = "idle"
    /\ input.fn = "inject"
    /\ output' = Inject(input.url, input.form, input.payload, input.method, beh)
    /\ PureFrame

\* The results and the probes sent: [results, sent].
ScanUrlParametersCall ==
    /\ pc = "idle"
    /\ input.fn = "scan_url_parameters"
    /\ output' = ScanUrlParameters(input.url, beh)
    /\ PureFrame

NextPure ==
    \/ DetectSqliBoolean
    \/ DetectXssReflected
    \/ InjectCall
    \/ ScanUrlParametersCall

SpecPure == InitPure /\ [][NextPure]_vars

\* C15: detect_sqli_boolean gives true exactly when both responses are
\* non-empty and the difference of their lengths is more than a tenth of
\* the longer one: false when either is empty, false for equal lengths,
\* true for lengths 100 and 50, false for 100 and 95, and the same with
\* the two responses exchanged.
C15_BooleanRatio ==
    (pc = "returned" /\ input.fn = "detect_sqli_boolean") =>
        LET a == Len(input.resp_true)
            b == Len(input.resp_false)
        IN  /\ output <=> /\ a > 0
                          /\ b > 0
                          /\ IF a >= b THEN 10 * (a - b) > a ELSE 10 * (b - a) > b
            /\ (a = 0 \/ b = 0) => ~output
            /\ a = b => ~output
            /\ (a = 100 /\ b = 50) => output
            /\ (a = 100 /\ b = 95) => ~output
            /\ output = detect_sqli_boolean(input.resp_false, input.resp_true)

\* The call on a response of 100 characters and one of 50, which is true.
C15_Witness ==
    /\ pc = "returned"
    /\ input.fn = "detect_sqli_boolean"
    /\ Len(input.resp_true) = 100
    /\ Len(input.resp_false) = 50
    /\ output = TRUE

\* C16: detect_xss_reflected gives true exactly when the payload is a
\* substring of the response, for every response and payload, and false
\* when the response holds the entity-encoded payload and not the payload.
C16_ReflectedIffSubstring ==
    (pc = "returned" /\ input.fn = "detect_xss_reflected") =>
        /\ output <=> Contains(input.response, input.payload)
        /\ ( /\ Contains(input.response, HtmlEscape(input.payload))
             /\ ~Contains(input.response, input.payload) ) => ~output

\* C20: inject never raises to its caller; it returns the body of the
\* response when its request left and was answered, and the empty string
\* when the request timed out, the connection failed or building the
\* request raised.
C20_InjectNeverRaises ==
    (pc = "returned" /\ input.fn = "inject") =>
        /\ ~output.raised
        /\ Len(output.sent) <= 1
        /\ IF output.sent # <<>> /\ Respond(beh, output.sent[1]).ok
           THEN output.text = Respond(beh, output.sent[1]).text
           ELSE output.text = ""
        /\ output.exc # "none" => output.text = ""

\* A call whose building of the request raised TypeError, which returned
\* the empty string without raising.
C20_Witness ==
    /\ pc = "returned"
    /\ input.fn = "inject"
    /\ output.exc = "TypeError"
    /\ ~output.raised
    /\ output.text = ""
    /\ output.sent = <<>>

(***************************************************************************)
(* Properties of the crawl's depth bound and of failed fetches             *)
(***************************************************************************)

\* C17: with max_depth = 0 the crawl accumulates and returns the start URL
\* alone and fetches no other page, whatever the start page links to and
\* whether or not its fetch succeeds; for every max_depth, each URL in the
\* result is linked from the start URL by a chain of at most max_depth
\* links.
C17_DepthBound ==
    LET \* the URLs a chain of at most k links leads to from the start URL
        RECURSIVE LinkedWithin(_)
        LinkedWithin(k) ==
            IF k = 0 THEN {target}
            ELSE LinkedWithin(k - 1)
                 \cup UNION { Range(ExtractLinks(u, links[u].hrefs)) :
                                 u \in {v \in LinkedWithin(k - 1) : links[v].ok} }
    IN  pc \in {"crawl", "crawled"} =>
            /\ config.max_depth = 0 =>
                  /\ Range(discovered) \subseteq {target}
                  /\ Range(fetchLog) \subseteq {target}
                  /\ pc = "crawled" => ret = <<target>>
            /\ Range(discovered) \subseteq LinkedWithin(config.max_depth)

\* A crawl with max_depth = 0 that returned the start URL alone, having
\* fetched it and found links to the two other pages of the site on it.
C17_Witness ==
    /\ pc = "crawled"
    /\ config.max_depth = 0
    /\ links[target].ok
    /\ Cardinality(Range(ExtractLinks(target, links[target].hrefs)) \ {target}) = 2
    /\ ret = <<target>>
    /\ fetchLog = <<target>>

(***************************************************************************)
(* WebCrawler.crawl called several times on one instance, over sites of    *)
(* five pages on which at most one page fails to load.                     *)
(***************************************************************************)

MaxCrawls == 2


\* The start page links to /p, /q and /n in the given order, /p links to
\* /q, /q to /n, and /n to /x and back to the start page.
SiteHrefs(order, path) ==
    CASE path = "/" -> [i \in DOMAIN order |-> RelHref(order[i])]
      [] path = "/p" -> <<RelHref("/q")>>
      [] path = "/q" -> <<RelHref("/n")>>
      [] path = "/n" -> <<RelHref("/x"), RelHref("/")>>
      [] OTHER -> <<>>

Site(order, failing) ==
    [u \in {Url(StartHost, p) : p \in {"/", "/p", "/q", "/n", "/x"}} |->
        \* a page whose fetch fails (timeout, connection error, status >=
        \* 400); hrefs is what it would link to were it served
        IF u.path = failing
        THEN [known |-> TRUE, ok |-> FALSE, hrefs |-> SiteHrefs(order, u.path)]
        ELSE LinkPage(SiteHrefs(order, u.path))]

\* One site per order of the start page's three links and per page that
\* fails, or none.
Sites ==
    { Site(o, f) :
         o \in { q \in [1..3 -> {"/p", "/q", "/n"}] :
                    \A i, j \in 1..3 : i # j => q[i] # q[j] },
         f \in {"none", "/p", "/q", "/n", "/x"} }

InitSites ==
    /\ config \in {ValidConfig(d) : d \in 0..MaxDepth}
    /\ links \in Sites
    /\ pages = [u \in PageUrls |-> NoPage]
    /\ beh = NoBeh
    /\ outcome = TaskOutcomes(pages, beh, config.timeout)
    /\ pc = "idle"
    /\ target = Url(StartHost, "/")
    /\ nCalls = 0
    /\ IdleCrawl
    /\ IdleScan
    /\ IdlePure
    /\ IdleRate

NextSites ==
    \/ \E u \in {Url(StartHost, "/"), Url(StartHost, "/q")} :
          nCalls < MaxCrawls /\ CrawlCall(u)
    \/ CrawlEnter
    \/ CrawlLoop
    \/ CrawlReturn

SpecSites == InitSites /\ [][NextSites]_vars

\* _crawl_recursive as the recursive function it is.  acc is the instance's
\* visited set, the accumulator and, for every URL in it, the URLs of the
\* calls it was reached through (above).

\* lines 137-138
Visit(acc, url, through) ==
    [visited |-> MarkVisited(acc.visited, url),
     discovered |-> Append(acc.discovered, url),
     above |-> Append(acc.above, through)]

RECURSIVE CrawlRecursive(_, _, _, _, _)
RECURSIVE CrawlLinks(_, _, _, _, _, _, _)
\* lines 149-151, from link i on
CrawlLinks(site, url, depth, through, found, i, acc) ==
    IF i > Len(found) THEN acc
    ELSE CrawlLinks(site, url, depth, through, found, i + 1,
                    IF found[i] \notin acc.visited
                    THEN CrawlRecursive(site, found[i], depth + 1,
                                        through \cup {url}, acc)
                    ELSE acc)

\* lines 133-153
CrawlRecursive(site, url, depth, through, acc) ==
    IF TooDeep(depth) \/ url \in acc.visited THEN acc
    ELSE IF ~site[url].ok THEN Visit(acc, url, through)
    ELSE CrawlLinks(site, url, depth, through,
                    ExtractLinks(url, site[url].hrefs), 1,
                    Visit(acc, url, through))

\* crawl on a new instance
FreshCrawl(site, start_url) ==
    CrawlRecursive(site, start_url, 0, {},
                   [visited |-> {}, discovered |-> <<>>, above |-> <<>>])

\* The site with the pages of a set served instead of failing.
Repaired(site, failed) ==
    [u \in DOMAIN site |-> IF u \in failed THEN [site[u] EXCEPT !.ok = TRUE]
                           ELSE site[u]]

\* C18: a URL whose fetch failed is in the visited set and in the result,
\* the failed fetch ends its call without a call for any link, and every
\* URL that the crawl reaches through calls for served pages only, when
\* the failed pages are served, is in the result.
C18_FailedFetchIsLocal ==
    /\ [](pc = "crawled" =>
            LET failed == {u \in Range(fetchLog) : ~links[u].ok}
                served == FreshCrawl(Repaired(links, failed), target)
            IN  /\ failed \subseteq visited
                /\ failed \subseteq Range(ret)
                /\ \A k \in DOMAIN served.discovered :
                      (served.above[k] \cup {served.discovered[k]}) \cap failed = {}
                         => served.discovered[k] \in Range(ret))
    /\ [][(/\ pc = "crawl"
           /\ Len(fetchLog') > Len(fetchLog)
           /\ ~links'[Top.url].ok) => stack' = Pop]_vars

\* C19: every crawl call returns what crawl returns for its start URL on a
\* new instance, whatever was crawled before on this one; two calls in
\* succession with the same start URL return the same sequence.
C19_CrawlStartsAfresh ==
    pc = "crawled" =>
        /\ ret = FreshCrawl(links, target).discovered
        /\ (/\ Len(history) = 2
            /\ history[1].op = "crawl"
            /\ history[1].target = history[2].target)
              => history[1].urls = history[2].urls

\* A second crawl call on the instance, from another start URL than the
\* first, that returned pages the first call had visited.
C19_Witness ==
    /\ pc = "crawled"
    /\ nCalls = 2
    /\ Len(history) = 2
    /\ history[1].op = "crawl"
    /\ history[1].target # history[2].target
    /\ Len(history[1].urls) >= 4
    /\ Len(ret) >= 3
    /\ Range(ret) \subseteq Range(history[1].urls)

(***************************************************************************)
(* ParameterScanner.scan_url_parameters, BulkPayloadInjector and the list  *)
(* scan returns                                                            *)
(***************************************************************************)

\* C30: the findings scan_url_parameters returns for one URL never hold two
\* identical (type, endpoint, payload) triples.  On a page without a form
\* the findings of the task are those of scan_url_parameters alone.
C30_NoDuplicateParamFindings ==
    (pc = "returned" /\ pages[target].forms = <<>>) => NoDuplicates(ret)


\* C27: every request sent to the target during scanning, the URL-parameter
\* probes included, leaves through PayloadInjector.inject, whose first step
\* is apply_rate_limit (the wait for rate_limit_delay since the last
\* dispatch and the update of last_request_time).
C27_EveryRequestRateLimited ==
    pc = "returned" =>
        /\ \A i \in DOMAIN calls :
              \A j \in DOMAIN calls[i].sent : calls[i].sent[j].via = "injector"
        /\ \A i \in DOMAIN probes : probes[i].via = "injector"


\* C24: for a form without action attribute the injection requests target
\* the page URL, and every finding reported for the form has the page URL
\* as its endpoint.
C24_ActionFallsBackToPage ==
    (pc = "returned" /\ pages[target] = OkPage(<<CommentForm(NoAttr)>>)) =>
        /\ \A i \in DOMAIN calls :
              \A j \in DOMAIN calls[i].sent :
                 calls[i].sent[j].target = UrlStr(target)
        /\ \A i \in DOMAIN ret : ret[i][2] = UrlStr(target)


\* C25: scan_fast crawls nothing and hands no task to the worker pool: it
\* scans the given URL alone in the calling thread, makes that URL the whole
\* discovered-URL list, and returns findings equal to the stored findings.
\* A step from an idle scanner straight to a returned call is scan_fast.
C25_ScanFastIsSynchronous ==
    [][ (pc \in {"idle", "returned"} /\ pc' = "returned") =>
            /\ fetchLog' = <<>>
            /\ discovered' = <<>>
            /\ futures' = <<>>
            /\ discovered_urls' = <<target'>>
            /\ Len(contrib') = 1
            /\ contrib'[1].url = target'
            /\ \A i \in DOMAIN probes' :
                  probes'[i].target = Origin(target') \o target'.path
            /\ ret' = scan_results'
            /\ ~raised' ]_vars

C25_Witness ==
    /\ pc = "returned"
    /\ futures = <<>>
    /\ fetchLog = <<>>
    /\ discovered_urls = <<target>>
    /\ Len(contrib) = 1
    /\ visited # {}
    /\ ret # <<>>
    /\ ret = scan_results


\* C26: a task in which an unexpected exception was raised contributes no
\* finding to the scan's result, and every other task contributes exactly
\* what its URL gives without a fault.
C26_FaultyTaskContributesNothing ==
    \A i \in DOMAIN contrib :
        (pc \in {"pool", "returned"} /\ contrib[i].task \in DOMAIN futures) =>
            IF futures[contrib[i].task].faults # {}
            THEN contrib[i].results = <<>>
            ELSE contrib[i].results = outcome[contrib[i].url, {}].results


\* C23: has_vulnerable_inputs is true of a parsed form exactly when the
\* <form> element has a named input whose type is none of hidden, submit,
\* button, reset, or a named textarea; and the task calls inject only for
\* forms of which it is true.
C23_OnlyTestableFormsScanned ==
    pc = "returned" =>
        LET els == pages[target].forms
            Named(t) == t.name # NoAttr /\ t.name # ""
            TypeOf(t) == IF t.type = NoAttr THEN "text" ELSE Lower(t.type)
            Testable(el) ==
                \/ \E k \in DOMAIN el.inputs :
                      /\ Named(el.inputs[k])
                      /\ TypeOf(el.inputs[k])
                            \notin {"hidden", "submit", "button", "reset"}
                \/ \E k \in DOMAIN el.textareas : Named(el.textareas[k])
        IN  /\ \A i \in DOMAIN els :
                  HasVulnerableInputs(ParseForm(els[i], i - 1)) <=> Testable(els[i])
            /\ \A c \in DOMAIN calls :
                  /\ calls[c].form + 1 \in DOMAIN els
                  /\ Testable(els[calls[c].form + 1])

\* A page whose first form has only a hidden input and whose second form
\* has a textarea: every inject call is for the second form.
C23_Witness ==
    /\ pc = "returned"
    /\ pages[target] = OkPage(<<HiddenForm, CommentForm("/comment")>>)
    /\ ~HasVulnerableInputs(ParseForm(HiddenForm, 0))
    /\ calls # <<>>
    /\ \A c \in DOMAIN calls : calls[c].form = 1 /\ calls[c].sent # <<>>


\* C28: when every fetch of a crawl succeeded, every URL of the start URL's
\* host within max_depth links of the start URL is in the sequence crawl
\* returned.
C28_CompleteToDepth ==
    (pc = "crawled" /\ \A u \in Range(fetchLog) : links[u].ok) =>
        LET RECURSIVE Within(_)
            Within(d) ==
                IF d = 0 THEN {target}
                ELSE Within(d - 1)
                     \cup UNION { Range(ExtractLinks(u, links[u].hrefs)) :
                                     u \in {w \in Within(d - 1) : links[w].ok} }
        IN  Within(config.max_depth) \subseteq Range(ret)


\* C29: the list a scan call returned holds the findings of that call, and
\* no other call on the same scanner changes it.  The list returned is the
\* scanner's own list (line 156: return self.scan_results), so what the
\* caller of an earlier call holds is, at any later moment, the content of
\* scan_results.
C29_ReturnedListIsStable ==
    \A k \in DOMAIN history :
        history[k].op = "scan" => Range(scan_results) = history[k].found


\* C22: scan_url_parameters sends, for every query key of the URL, two
\* probes, the one with ' OR 1=1-- before the one with
\* <script>alert(1)</script>, each with that key's value replaced and every
\* other key's value as in the URL; it sends nothing for a URL without query
\* string, sends every probe although earlier ones failed, and reports
\* nothing when no response holds the payload sent or "sql".
C22_TwoProbesPerKey ==
    (pc = "returned" /\ input.fn = "scan_url_parameters") =>
        LET q == input.url.query
            Keys == {q[i][1] : i \in DOMAIN q}
            Orig(k) == q[CHOOSE i \in DOMAIN q : q[i][1] = k][2]
            Probe(key, payload) ==
                [k \in Keys |-> IF k = key THEN payload ELSE Orig(k)]
            At(key, p) ==
                {n \in DOMAIN output.sent :
                    output.sent[n].params = Probe(key, PARAM_PAYLOADS[p])}
            Matched(n) ==
                LET r == Respond(beh, output.sent[n])
                    payload == PARAM_PAYLOADS[((n - 1) % 2) + 1]
                IN  r.ok /\ (Contains(r.text, payload)
                             \/ Contains(Lower(r.text), "sql"))
        IN  /\ Len(output.sent) = 2 * Cardinality(Keys)
            /\ \A key \in Keys :
                  /\ Cardinality(At(key, 1)) = 1
                  /\ Cardinality(At(key, 2)) = 1
                  /\ \A n \in At(key, 1) : n + 1 \in At(key, 2)
            /\ q = <<>> => output.sent = <<>>
            /\ (\A n \in DOMAIN output.sent : ~Matched(n)) => output.results = <<>>


(***************************************************************************)
(* BulkPayloadInjector: inject and reset_stats called in any order on one  *)
(* instance.  history is the log of the calls: for an inject call, the     *)
(* text it returned and what its injection attempt raised.                 *)
(***************************************************************************)

MaxOps == 3

InitBulk ==
    /\ config = ValidConfig(0)
    /\ links = [u \in AllUrls |-> UnknownPage]
    /\ pages = [u \in PageUrls |-> NoPage]
    /\ beh \in { [kind |-> "static", field |-> ""],
                 [kind |-> "down", field |-> ""],
                 [kind |-> "slow", field |-> ""],
                 [kind |-> "echo", field |-> "input"] }
    /\ outcome = TaskOutcomes(pages, NoBeh, config.timeout)
    /\ pc = "idle"
    /\ target = Url(StartHost, "/")
    /\ nCalls = 0
    /\ IdleCrawl
    /\ IdleScan
    /\ IdlePure
    /\ IdleRate

\* BulkPayloadInjector.inject, lines 138-145: the count, the call of
\* PayloadInjector.inject, and the count of errors when that call raises.
BulkInject(form, payload) ==
    /\ Len(history) < MaxOps
    /\ injection_count' = injection_count + 1
    /\ \E r \in {Inject(target, form, payload, "", beh)} :
          /\ error_count' = IF r.raised THEN error_count + 1 ELSE error_count
          /\ output' = r.text
          /\ history' = Append(history, [op |-> "inject", text |-> r.text,
                                         exc |-> r.exc, raised |-> r.raised])
    /\ UNCHANGED <<now, last_request_time, thr, dispatches>>
    /\ UNCHANGED <<siteVars, crawlVars, scanVars, pc, target, nCalls, input>>

\* BulkPayloadInjector.reset_stats
ResetStats ==
    /\ Len(history) < MaxOps
    /\ injection_count' = 0
    /\ error_count' = 0
    /\ history' = Append(history, [op |-> "reset_stats"])
    /\ UNCHANGED <<now, last_request_time, thr, dispatches>>
    /\ UNCHANGED <<siteVars, crawlVars, scanVars, pc, target, nCalls, pureVars>>

\* BulkPayloadInjector.get_stats; success_rate, a float in the code, is the
\* fraction num / den.
GetStats ==
    [total_injections |-> injection_count,
     errors |-> error_count,
     success_rate |-> IF injection_count > 0
                      THEN [num |-> (injection_count - error_count) * 100,
                            den |-> injection_count]
                      ELSE [num |-> 0, den |-> 1]]

NextBulk ==
    \/ \E form \in {ParseForm(SearchForm, 0), ParseForm(CommentForm(NoAttr), 0)} :
          BulkInject(form, XSS_PAYLOADS[1])
    \/ ResetStats

SpecBulk == InitBulk /\ [][NextBulk]_vars

\* C21: after any sequence of inject and reset_stats calls, total_injections
\* is the number of inject calls since the last reset, errors is the number
\* of those calls whose injection attempt failed (it raised a timeout, a
\* connection error or another exception, and the call returned the empty
\* string), and success_rate is the share of the other calls, in percent.
C21_StatsCountFailures ==
    LET resets == {k \in DOMAIN history : history[k].op = "reset_stats"}
        since == {k \in DOMAIN history :
                     /\ history[k].op = "inject"
                     /\ \A j \in resets : j < k}
        failed == {k \in since : history[k].exc # "none"}
        stats == GetStats
    IN  /\ stats.total_injections = Cardinality(since)
        /\ stats.errors = Cardinality(failed)
        /\ stats.success_rate.num * Cardinality(since)
              = (Cardinality(since) - Cardinality(failed)) * 100 * stats.success_rate.den


=============================================================================
